---- MODULE Spec2Model ----
(***************************************************************************)
(* State-machine model of the search algorithms of tuia-prog3:             *)
(*   - UniformCostSearch.search  (tp-pathfinding/.../search/ucs.py)        *)
(*   - HillClimbing / HillClimbingReset / Tabu .solve  (tp-tsp/search.py)  *)
(* The Grid, Node, PriorityQueueFrontier and OptProblem collaborators are  *)
(* not part of the sources and are modelled from their documented          *)
(* contracts.                                                              *)
(***************************************************************************)
EXTENDS Integers, Sequences, FiniteSets, TLC

(* ------------------------------ bounds --------------------------------- *)
MaxRow == 2           \* grid rows are 0..MaxRow
MaxCol == 2           \* grid columns are 0..MaxCol
MaxWalls == 2         \* at most this many blocked cells
MaxHeavy == 1         \* at most this many cells whose cost differs from the base cost
MaxCost == 2          \* entering costs range over 1..MaxCost
NumStates == 5        \* the optimisation problem has states 0..NumStates-1
NumActions == 2       \* and actions 1..NumActions
MaxVal == 2           \* objective values range over 0..MaxVal
MaxRestarts == 2      \* max_restarts ranges over 0..MaxRestarts
MaxLimit == 3         \* no_improve_limit ranges over 0..MaxLimit

(* ------------------------- program constants --------------------------- *)
None == 0             \* the action None (`act_prev = None`)
NegInf == -1          \* float('-inf'): below every objective value
NoTour == -1          \* `best_tour = None`
EmptyTour == -2       \* `self.tour = []` of LocalSearch.__init__
NoValue == -2         \* `self.value = None` of LocalSearch.__init__
ReinicioLimit == 10   \* `if self.reinicio < 10`
tabu_tenure == 2      \* documented maximum size of the tabu list

VARIABLES
    grid,        \* the Grid given to search: [start, end, walls, cost]
    ucs_pc,      \* position of UniformCostSearch.search: "init", "loop", "done"
    nodes,       \* arena of the Node objects constructed so far (parent = index, 0 = none)
    node,        \* local `node` of search: index into nodes (0 before line 19)
    explored,    \* local `explored`: the set of keys of the dictionary
    frontier,    \* contents of the PriorityQueueFrontier: sequence of [priority, node]
    result,      \* what search returned: [kind, node, explored]
    frontierOps, \* history: number of calls made on the frontier (constructor included)
    nbCalls,     \* history: number of grid.get_neighbours calls
    pushes,      \* history: per state, number of frontier.add calls with a node of that state
    pops,        \* history: per state, number of frontier.pop calls returning a node of that state
    problem,     \* the OptProblem given to solve: [obj, shift]
    hc,          \* a HillClimbing instance and the locals of its solve
    hcr,         \* a HillClimbingReset instance and the locals of its solve
    tabu         \* a Tabu instance and the locals of its solve

ucsVars == <<grid, ucs_pc, nodes, node, explored, frontier, result,
             frontierOps, nbCalls, pushes, pops>>

lsVars == <<problem, hc, hcr, tabu>>

vars == <<ucsVars, lsVars>>

(* ------------------------------- Grid ---------------------------------- *)
Cells == (0..MaxRow) \X (0..MaxCol)

\* Grid.get_cost(state): the cost of entering a state
get_cost(g, s) == g.cost[s]

\* Grid.get_neighbours(state): the free cells up, down, left and right of
\* state, in the iteration order of the returned mapping
get_neighbours(g, s) ==
    LET cand == << <<s[1] - 1, s[2]>>, <<s[1] + 1, s[2]>>,
                   <<s[1], s[2] - 1>>, <<s[1], s[2] + 1>> >>
        free(c) == c \in Cells /\ c \notin g.walls
    IN  SelectSeq(cand, free)

SmallSubsets(S, n) == {X \in SUBSET S : Cardinality(X) <= n}

\* the start states tried: the top-left corner
StartCells == {<<0, 0>>}

\* the grids the search is run on
Grids ==
    { [start |-> s, end |-> e, walls |-> w,
       cost |-> [c \in Cells |-> IF c \in h THEN heavy ELSE base]] :
        s \in StartCells, e \in Cells, w \in SmallSubsets(Cells, MaxWalls),
        h \in SmallSubsets(Cells, MaxHeavy), base \in 1..MaxCost, heavy \in 1..MaxCost }

(* --------------------------- Node, Frontier ---------------------------- *)
\* Node("", state, cost, parent=..., action=...)
Node(state, cost, parent) == [state |-> state, cost |-> cost, parent |-> parent]

\* PriorityQueueFrontier.add(node, priority); priority defaults to 0
FrontierAdd(f, n, priority) == Append(f, [priority |-> priority, node |-> n])

\* the positions PriorityQueueFrontier.pop may return: an entry of minimum
\* priority (ties are broken in an unspecified order)
MinEntries(f) ==
    {i \in 1..Len(f) : \A j \in 1..Len(f) : f[i].priority <= f[j].priority}

\* PriorityQueueFrontier.is_empty()
IsEmptyBroken(f) == Len(f) < 0
IsEmpty(f) == f = <<>>

RemoveAt(f, i) == [k \in 1..(Len(f) - 1) |-> IF k < i THEN f[k] ELSE f[k + 1]]

(* ---------------------- UniformCostSearch.search ----------------------- *)
\* line 56: `if new_state not in explored`
NotReached(new_state, expl) == new_state \notin expl

\* line 64: `explored[new_state] = True`
MarkReachedOmitted(expl, new_state) == expl
MarkReached(expl, new_state) == expl \cup {new_state}

\* line 60: the cost given to the son node
SonCostNotAccumulated(parent_cost, enter_cost) == enter_cost
SonCost(parent_cost, enter_cost) == parent_cost + enter_cost

\* line 74: the priority passed to frontier.add for the son node
SonPriority(parent_cost, son_cost) == parent_cost

\* line 28: `if node.state == grid.end` on the root
RootIsGoalSkipped(g, s) == FALSE
RootIsGoal(g, s) == s = g.end

\* lines 50-74: the for loop over the successors of nodes[p]; st carries the
\* locals it updates; st.goal becomes the index of the returned node
RECURSIVE ForSuccessors(_, _, _, _)
ForSuccessors(g, succ, p, st) ==
    IF succ = <<>> THEN st
    ELSE LET new_state == Head(succ) IN
         IF NotReached(new_state, st.explored)
         THEN LET new_node == Node(new_state,
                                   SonCost(st.nodes[p].cost, get_cost(g, new_state)), p)
                  nodes2 == Append(st.nodes, new_node)
                  expl2 == MarkReached(st.explored, new_state)
              IN  IF new_state = g.end
                  THEN [st EXCEPT !.nodes = nodes2, !.explored = expl2,
                                  !.goal = Len(nodes2)]
                  ELSE ForSuccessors(g, Tail(succ), p,
                         [st EXCEPT !.nodes = nodes2, !.explored = expl2,
                                    !.frontier = FrontierAdd(@, Len(nodes2),
                                        SonPriority(st.nodes[p].cost, new_node.cost)),
                                    !.ops = @ + 1,
                                    !.pushes[new_state] = @ + 1])
         ELSE ForSuccessors(g, Tail(succ), p, st)

NoResult == [kind |-> "none", node |-> 0, explored |-> {}]

\* the state of a search that has been called (pc "init") or not (pc "idle")
UCSLocals(pc) ==
    /\ ucs_pc = pc
    /\ nodes = <<>>
    /\ node = 0
    /\ explored = {}
    /\ frontier = <<>>
    /\ result = NoResult
    /\ frontierOps = 0
    /\ nbCalls = 0
    /\ pushes = [c \in Cells |-> 0]
    /\ pops = [c \in Cells |-> 0]

\* lines 19-34: root node, explored, goal test on the root, frontier creation
UCSStart ==
    /\ ucs_pc = "init"
    /\ nodes' = <<Node(grid.start, 0, 0)>>
    /\ node' = 1
    /\ explored' = {grid.start}
    /\ IF RootIsGoal(grid, grid.start)
       THEN /\ result' = [kind |-> "Solution", node |-> 1, explored |-> explored']
            /\ ucs_pc' = "done"
            /\ UNCHANGED <<frontier, frontierOps, pushes>>
       ELSE /\ frontier' = FrontierAdd(<<>>, 1, 0)
            /\ frontierOps' = 2
            /\ pushes' = [pushes EXCEPT ![grid.start] = @ + 1]
            /\ ucs_pc' = "loop"
            /\ UNCHANGED result
    /\ UNCHANGED <<grid, nbCalls, pops, lsVars>>

\* lines 40-41: the frontier is empty
UCSFail ==
    /\ ucs_pc = "loop"
    /\ IsEmpty(frontier)
    /\ result' = [kind |-> "NoSolution", node |-> 0, explored |-> explored]
    /\ ucs_pc' = "done"
    /\ frontierOps' = frontierOps + 1
    /\ UNCHANGED <<grid, nodes, node, explored, frontier, nbCalls, pushes, pops, lsVars>>

\* lines 40-74: one iteration of the while loop that pops and expands a node
UCSExpand ==
    /\ ucs_pc = "loop"
    /\ ~IsEmpty(frontier)
    /\ \E i \in MinEntries(frontier) :
         LET p == frontier[i].node
             st == ForSuccessors(grid, get_neighbours(grid, nodes[p].state), p,
                      [nodes |-> nodes, explored |-> explored,
                       frontier |-> RemoveAt(frontier, i),
                       ops |-> frontierOps + 2, pushes |-> pushes, goal |-> 0])
         IN  /\ node' = p
             /\ pops' = [pops EXCEPT ![nodes[p].state] = @ + 1]
             /\ nbCalls' = nbCalls + 1
             /\ nodes' = st.nodes
             /\ explored' = st.explored
             /\ frontier' = st.frontier
             /\ frontierOps' = st.ops
             /\ pushes' = st.pushes
             /\ IF st.goal # 0
                THEN /\ result' = [kind |-> "Solution", node |-> st.goal,
                                   explored |-> st.explored]
                     /\ ucs_pc' = "done"
                ELSE UNCHANGED <<result, ucs_pc>>
    /\ UNCHANGED <<grid, lsVars>>

(* ----------------------------- OptProblem ------------------------------ *)
States == 0..(NumStates - 1)
Actions == 1..NumActions

\* the problems solve is run on: an objective value per state, and per
\* action the number of positions it moves the state around the ring of states
Problems ==
    [obj : [States -> 0..MaxVal], shift : [Actions -> 1..(NumStates - 1)]]

\* OptProblem.init
init == 0

\* OptProblem.obj_val(state)
obj_val(pb, s) == pb.obj[s]

\* OptProblem.result(state, action), for an action of the problem
result_of(pb, s, a) == (s + pb.shift[a]) % NumStates

\* OptProblem.max_action(state, tabu_list): the first admissible action of
\* greatest resulting value, with that value; (None, -inf) when every
\* action is tabu
max_action(pb, s, tabu_list) ==
    LET adm == {a \in Actions : \A i \in 1..Len(tabu_list) : tabu_list[i] # a}
        val(a) == obj_val(pb, result_of(pb, s, a))
    IN  IF adm = {} THEN [act |-> None, val |-> NegInf]
        ELSE LET best == CHOOSE v \in {val(a) : a \in adm} :
                              \A a \in adm : val(a) <= v
                 first == CHOOSE a \in adm :
                              val(a) = best /\ \A b \in adm : val(b) = best => a <= b
             IN  [act |-> first, val |-> best]

(* ----------------------------- HillClimbing ---------------------------- *)
\* LocalSearch.__init__ (lines 28-31), the locals of HillClimbing.solve and
\* the history variable visited (the states `actual` has held, in order)
HCNew(pc) ==
    [pc |-> pc, niters |-> 0, tour |-> EmptyTour, value |-> NoValue,
     actual |-> NoTour, val |-> NoValue, visited |-> <<>>]

\* line 68: `if succ_val <= value`
IsLocalMaxOffByOne(succ_val, value) == succ_val <= value + 1
IsLocalMaxStrict(succ_val, value) == succ_val < value
IsLocalMax(succ_val, value) == succ_val <= value

\* lines 58-59
HCStart ==
    /\ hc.pc = "init"
    /\ hc' = [hc EXCEPT !.pc = "loop", !.actual = init,
                        !.val = obj_val(problem, init),
                        !.visited = <<init>>]
    /\ UNCHANGED <<ucsVars, problem, hcr, tabu>>

\* lines 64-79: one iteration of the while loop
HCStep ==
    /\ hc.pc = "loop"
    /\ LET m == max_action(problem, hc.actual, <<>>) IN
         IF IsLocalMax(m.val, hc.val)
         THEN hc' = [hc EXCEPT !.pc = "done", !.tour = hc.actual, !.value = hc.val]
         ELSE hc' = [hc EXCEPT !.actual = result_of(problem, hc.actual, m.act),
                               !.val = m.val, !.niters = @ + 1,
                               !.visited = Append(@, result_of(problem, hc.actual, m.act))]
    /\ UNCHANGED <<ucsVars, problem, hcr, tabu>>

(* --------------------------- HillClimbingReset ------------------------- *)
\* HillClimbingReset.__init__ (lines 97-98), the locals of its solve, and the
\* history variables trial_start (the state the current trial started from)
\* and trials (per finished trial: its start, final state and final value)
HCRNew(pc, max_restarts) ==
    [pc |-> pc, niters |-> 0, tour |-> EmptyTour, value |-> NoValue,
     max_restarts |-> max_restarts, restart |-> 0,
     actual |-> NoTour, val |-> NoValue, best_tour |-> NoTour, best_value |-> NegInf,
     trial_start |-> NoTour, trials |-> <<>>]

\* line 138: `if value > best_value`
BetterThanBestAlways(value, best_value) == TRUE
BetterThanBestOrEqual(value, best_value) == value >= best_value
BetterThanBest(value, best_value) == value > best_value

\* lines 112-113; the instance is run once the HillClimbing run has returned
HCRStart ==
    /\ hc.pc = "done"
    /\ hcr.pc = "init"
    /\ hcr' = [hcr EXCEPT !.pc = "for", !.best_tour = NoTour, !.best_value = NegInf,
                          !.restart = 0]
    /\ UNCHANGED <<ucsVars, problem, hc, tabu>>

\* lines 115-122: the next trial starts from init or from a random state
HCRTrial ==
    /\ hcr.pc = "for"
    /\ hcr.restart < hcr.max_restarts
    /\ \E s \in States :
         /\ hcr.restart = 0 => s = init
         /\ hcr' = [hcr EXCEPT !.pc = "climb", !.actual = s,
                               !.val = obj_val(problem, s),
                               !.trial_start = s]
    /\ UNCHANGED <<ucsVars, problem, hc, tabu>>

\* lines 124-140: one iteration of the inner loop; at a local maximum the
\* trial ends and the best solution is updated
HCRStep ==
    /\ hcr.pc = "climb"
    /\ LET m == max_action(problem, hcr.actual, <<>>) IN
         IF IsLocalMax(m.val, hcr.val)
         THEN LET better == BetterThanBest(hcr.val, hcr.best_value) IN
              hcr' = [hcr EXCEPT !.pc = "for", !.restart = @ + 1,
                         !.trials = Append(@, [start |-> hcr.trial_start,
                                               state |-> hcr.actual,
                                               val |-> hcr.val]),
                         !.best_tour = IF better THEN hcr.actual ELSE @,
                         !.best_value = IF better THEN hcr.val ELSE @]
         ELSE hcr' = [hcr EXCEPT !.actual = result_of(problem, hcr.actual, m.act),
                                 !.val = m.val, !.niters = @ + 1]
    /\ UNCHANGED <<ucsVars, problem, hc, tabu>>

\* lines 143-145: all the trials are done
HCRFinish ==
    /\ hcr.pc = "for"
    /\ hcr.restart >= hcr.max_restarts
    /\ hcr' = [hcr EXCEPT !.pc = "done", !.tour = hcr.best_tour,
                          !.value = hcr.best_value]
    /\ UNCHANGED <<ucsVars, problem, hc, tabu>>

(* ---------------------------------- Tabu ------------------------------- *)
\* what an earlier solve call on the instance recorded (history)
NoRun == [done |-> FALSE, tour |-> NoTour, value |-> NoValue, niters |-> 0]

\* Tabu.__init__ (lines 162-167), the locals of Tabu.solve, and the history
\* variables seen (the greatest objective value of a current state so far)
\* and first (the outcome of the first solve call, once a second is made)
TabuNew(pc, no_improve_limit) ==
    [pc |-> pc, niters |-> 0, tour |-> EmptyTour, value |-> NoValue,
     tabu_list |-> <<>>, no_improve_limit |-> no_improve_limit,
     no_improve_count |-> 0, frequency_memory |-> <<>>, reinicio |-> 0,
     actual |-> NoTour, val |-> NoValue, best_tour |-> NoTour,
     best_value |-> NegInf, act_prev |-> None, seen |-> NegInf, first |-> NoRun]

Max(a, b) == IF a > b THEN a ELSE b

\* lines 194-197: count one more visit of the state in frequency_memory, a
\* dictionary kept as its items in insertion order
CountVisit(fm, s) ==
    IF \E i \in 1..Len(fm) : fm[i].key = s
    THEN [i \in 1..Len(fm) |-> IF fm[i].key = s
                               THEN [fm[i] EXCEPT !.count = @ + 1] ELSE fm[i]]
    ELSE Append(fm, [key |-> s, count |-> 1])

\* line 200: min(frequency_memory, key=frequency_memory.get): the first key
\* of least count
LeastVisited(fm) ==
    LET i == CHOOSE i \in 1..Len(fm) :
                 /\ \A j \in 1..Len(fm) : fm[i].count <= fm[j].count
                 /\ \A j \in 1..(i - 1) : fm[j].count > fm[i].count
    IN  fm[i].key

\* line 188: the loop test
LoopContinues(count, limit) == count < limit

\* lines 193-197: the frequency memory after the visit is counted
MemoryAfterVisit(t) ==
    IF t.reinicio < ReinicioLimit THEN CountVisit(t.frequency_memory, t.actual)
    ELSE t.frequency_memory

\* lines 193, 198: the iteration takes the diversification branch
DiversifiesOnceMore(t) ==
    t.reinicio <= ReinicioLimit /\ t.no_improve_count < t.no_improve_limit - 1
Diversifies(t) ==
    t.reinicio < ReinicioLimit /\ t.no_improve_count < t.no_improve_limit - 1

\* lines 181-186
TabuStart ==
    /\ tabu.pc = "init"
    /\ tabu' = [tabu EXCEPT !.pc = "loop", !.actual = init,
                            !.val = obj_val(problem, init),
                            !.best_tour = NoTour, !.best_value = NegInf,
                            !.act_prev = None,
                            !.seen = obj_val(problem, init)]
    /\ UNCHANGED <<ucsVars, problem, hc, hcr>>

\* lines 181-186 of a second solve call on the same instance, with the same
\* problem: the locals are initialised again, the fields of self are kept
TabuAgain ==
    /\ tabu.pc = "done"
    /\ ~tabu.first.done
    /\ tabu' = [tabu EXCEPT !.pc = "loop", !.actual = init,
                            !.val = obj_val(problem, init),
                            !.best_tour = NoTour, !.best_value = NegInf,
                            !.act_prev = None,
                            !.seen = obj_val(problem, init),
                            !.first = [done |-> TRUE, tour |-> tabu.tour,
                                       value |-> tabu.value, niters |-> tabu.niters]]
    /\ UNCHANGED <<ucsVars, problem, hc, hcr>>

\* lines 188, 227-231: the loop test fails and solve returns
TabuExit ==
    /\ tabu.pc = "loop"
    /\ ~LoopContinues(tabu.no_improve_count, tabu.no_improve_limit)
    /\ tabu' = [tabu EXCEPT !.pc = "done", !.tour = tabu.best_tour,
                            !.value = tabu.best_value]
    /\ UNCHANGED <<ucsVars, problem, hc, hcr>>

\* lines 188-204: an iteration that diversifies and continues
TabuDiversify ==
    /\ tabu.pc = "loop"
    /\ LoopContinues(tabu.no_improve_count, tabu.no_improve_limit)
    /\ Diversifies(tabu)
    /\ LET fm == MemoryAfterVisit(tabu)
           s == LeastVisited(fm)
       IN  tabu' = [tabu EXCEPT !.frequency_memory = fm, !.reinicio = @ + 1,
                                !.actual = s, !.val = obj_val(problem, s),
                                !.niters = @ + 1,
                                !.seen = Max(@, obj_val(problem, s))]
    /\ UNCHANGED <<ucsVars, problem, hc, hcr>>

\* lines 188-219: an iteration at a local maximum; problem.result raises
\* when it is given the action None
TabuNoImprove ==
    /\ tabu.pc = "loop"
    /\ LoopContinues(tabu.no_improve_count, tabu.no_improve_limit)
    /\ ~Diversifies(tabu)
    /\ LET m == max_action(problem, tabu.actual, tabu.tabu_list)
           better == tabu.val > tabu.best_value
           t1 == [tabu EXCEPT !.frequency_memory = MemoryAfterVisit(tabu),
                              !.tabu_list = Append(@, tabu.act_prev),
                              !.no_improve_count = IF better THEN 0 ELSE @ + 1,
                              !.niters = @ + 1,
                              !.best_tour = IF better THEN tabu.actual ELSE @,
                              !.best_value = IF better THEN tabu.val ELSE @]
       IN  /\ m.val <= tabu.val
           /\ IF tabu.act_prev = None
              THEN tabu' = [t1 EXCEPT !.pc = "failed"]
              ELSE LET s == result_of(problem, tabu.actual, tabu.act_prev) IN
                   tabu' = [t1 EXCEPT !.actual = s, !.val = obj_val(problem, s),
                                      !.seen = Max(@, obj_val(problem, s))]
    /\ UNCHANGED <<ucsVars, problem, hc, hcr>>

\* lines 188-206, 221-225: an iteration that moves to a better successor
TabuMove ==
    /\ tabu.pc = "loop"
    /\ LoopContinues(tabu.no_improve_count, tabu.no_improve_limit)
    /\ ~Diversifies(tabu)
    /\ LET m == max_action(problem, tabu.actual, tabu.tabu_list) IN
         /\ ~(m.val <= tabu.val)
         /\ tabu' = [tabu EXCEPT !.frequency_memory = MemoryAfterVisit(tabu),
                                 !.actual = result_of(problem, tabu.actual, m.act),
                                 !.val = m.val,
                                 !.act_prev = m.act,
                                 !.niters = @ + 1,
                                 !.seen = Max(@, m.val)]
    /\ UNCHANGED <<ucsVars, problem, hc, hcr>>

(* ------------------- reference values for the grid claims -------------- *)
Min(a, b) == IF a < b THEN a ELSE b

\* larger than the cost of any simple path
Inf == (MaxCost * Cardinality(Cells)) + 1

NbSet(g, c) == {get_neighbours(g, c)[i] : i \in 1..Len(get_neighbours(g, c))}

\* the cheapest <<cell, cost>> pairs of a set of pairs
Cheapest(S) == {p \in S : \A q \in S : q[1] = p[1] => p[2] <= q[2]}

\* k rounds of relaxation of the <<cell, cost>> pairs S, entering cell c costing w[c]
RECURSIVE Relax(_, _, _, _)
Relax(g, w, S, k) ==
    IF k = 0 THEN S
    ELSE Relax(g, w,
               Cheapest(S \cup UNION {{<<n, p[2] + w[n]>> : n \in NbSet(g, p[1])} : p \in S}),
               k - 1)

\* cost of the cheapest path from start to every cell (Inf when there is none)
Dist(g, w) ==
    LET S == Relax(g, w, {<<g.start, 0>>}, Cardinality(Cells))
    IN  [c \in Cells |-> IF \E p \in S : p[1] = c
                         THEN (CHOOSE p \in S : p[1] = c)[2] ELSE Inf]

\* minimum over all paths from start to end of the summed entering costs
MinPathCost(g) == Dist(g, g.cost)[g.end]

\* minimum number of moves from start to end
MinMoves(g) == Dist(g, [c \in Cells |-> 1])[g.end]

Reachable(g) == MinMoves(g) < Inf

UniformCost(g) == \A c, d \in Cells \ g.walls : g.cost[c] = g.cost[d]

Generated == {nodes[i].state : i \in 1..Len(nodes)}

(* ---------------------------- specifications --------------------------- *)
\* a grid and a problem for the runs that do not use them
IdleGrid ==
    [start |-> <<0, 0>>, end |-> <<0, 0>>, walls |-> {}, cost |-> [c \in Cells |-> 1]]

IdleProblem == [obj |-> [s \in States |-> 0], shift |-> [a \in Actions |-> 1]]

UCSIdle == grid = IdleGrid /\ UCSLocals("idle")

LSIdle ==
    /\ problem = IdleProblem
    /\ hc = HCNew("idle")
    /\ hcr = HCRNew("idle", 0)
    /\ tabu = TabuNew("idle", 0)

\* UniformCostSearch.search(grid) on every grid of Grids
InitUCS ==
    /\ grid \in Grids
    /\ grid.start \notin grid.walls
    /\ grid.end \notin grid.walls
    /\ UCSLocals("init")
    /\ LSIdle

NextUCS == UCSStart \/ UCSFail \/ UCSExpand

SpecUCS == InitUCS /\ [][NextUCS]_vars

\* search on the grids in which end cannot be reached from start; search is
\* a sequential loop, so it keeps running until it returns
InitUCSUnreachable == InitUCS /\ ~Reachable(grid)

FairSpecUCSUnreachable ==
    InitUCSUnreachable /\ [][NextUCS]_vars /\ WF_vars(NextUCS)

\* HillClimbing().solve(problem) followed by
\* HillClimbingReset(max_restarts).solve(problem)
InitHC ==
    /\ UCSIdle
    /\ problem \in Problems
    /\ hc = HCNew("init")
    /\ \E r \in 0..MaxRestarts : hcr = HCRNew("init", r)
    /\ tabu = TabuNew("idle", 0)

NextHC == HCStart \/ HCStep \/ HCRStart \/ HCRTrial \/ HCRStep \/ HCRFinish

SpecHC == InitHC /\ [][NextHC]_vars

\* Tabu(no_improve_limit).solve(problem)
InitTabu ==
    /\ UCSIdle
    /\ problem \in Problems
    /\ hc = HCNew("idle")
    /\ hcr = HCRNew("idle", 0)
    /\ \E l \in 0..MaxLimit : tabu = TabuNew("init", l)

NextTabu == TabuStart \/ TabuExit \/ TabuDiversify \/ TabuNoImprove \/ TabuMove

SpecTabu == InitTabu /\ [][NextTabu]_vars

\* HillClimbing().solve(problem) alone; solve is a sequential loop, so it
\* keeps running until it returns
InitHillClimbing ==
    /\ UCSIdle
    /\ problem \in Problems
    /\ hc = HCNew("init")
    /\ hcr = HCRNew("idle", 0)
    /\ tabu = TabuNew("idle", 0)

NextHillClimbing == HCStart \/ HCStep

FairSpecHillClimbing ==
    InitHillClimbing /\ [][NextHillClimbing]_vars /\ WF_vars(NextHillClimbing)

\* a driver that runs one of the strategies keeping a best-found value:
\* HillClimbingReset (after HillClimbing) or Tabu
InitLocalSearch == InitHC \/ InitTabu

NextLocalSearch == NextHC \/ NextTabu

SpecLocalSearch == InitLocalSearch /\ [][NextLocalSearch]_vars

\* solve is a sequential loop: it keeps running until it returns or raises
FairSpecTabu == SpecTabu /\ WF_vars(NextTabu)

\* Tabu(no_improve_limit).solve(problem) called twice on the same instance
NextTabuTwice == NextTabu \/ TabuAgain

SpecTabuTwice == InitTabu /\ [][NextTabuTwice]_vars

(* ------------------------------- claims -------------------------------- *)
\* C1: when end is reachable from start, search returns a Solution whose
\* terminal node cost is the minimum path cost from start to end.
C1_ReturnsMinimumCost ==
    (ucs_pc = "done" /\ Reachable(grid)) =>
        (result.kind = "Solution" /\ nodes[result.node].cost = MinPathCost(grid))

\* C2: when end is not reachable from start, search eventually returns
\* NoSolution(explored).
C2_UnreachableTerminates ==
    (~Reachable(grid)) =>
        <>(ucs_pc = "done" /\ result.kind = "NoSolution" /\ result.explored = explored)

C2_Witness ==
    /\ ucs_pc = "done"
    /\ ~Reachable(grid)
    /\ result.kind = "NoSolution"
    /\ frontier = <<>>
    /\ Cardinality(explored) >= 3

\* C3: no state is pushed more than once, no state is popped more than once,
\* and |explored| is the number of distinct states generated so far.
C3_NoRevisits ==
    /\ \A c \in Cells : pushes[c] <= 1 /\ pops[c] <= 1
    /\ Cardinality(explored) = Cardinality(Generated)

C3_Witness ==
    /\ Cardinality(explored) >= 5
    /\ Cardinality({c \in Cells : pops[c] = 1}) >= 3
    /\ Cardinality({c \in Cells : pushes[c] = 1}) >= 4

\* C4: when start = end, search returns a Solution whose node is the root
\* (cost 0, no parent) with explored = {start}, with no frontier call and no
\* get_neighbours call.
C4_TrivialSolution ==
    (ucs_pc = "done" /\ grid.start = grid.end) =>
        /\ result.kind = "Solution"
        /\ nodes = <<Node(grid.start, 0, 0)>>
        /\ result.node = 1
        /\ result.explored = {grid.start}
        /\ frontierOps = 0
        /\ nbCalls = 0

C4_Witness == ucs_pc = "done" /\ grid.start = grid.end /\ result.kind = "Solution"

\* C5: on a grid of uniform entering cost c > 0 with end reachable, search
\* returns a Solution of cost c times the minimum number of moves.
C5_UniformCost ==
    (ucs_pc = "done" /\ UniformCost(grid) /\ Reachable(grid)) =>
        /\ result.kind = "Solution"
        /\ nodes[result.node].cost = grid.cost[grid.start] * MinMoves(grid)

\* the open 3x3 unit-cost grid, corner to opposite corner: cost 4
C5_Witness ==
    /\ ucs_pc = "done"
    /\ grid.walls = {}
    /\ grid.start = <<0, 0>> /\ grid.end = <<2, 2>>
    /\ \A c \in Cells : grid.cost[c] = 1
    /\ result.kind = "Solution"
    /\ nodes[result.node].cost = 4

\* C6: when HillClimbing.solve returns, no action applied to self.tour yields
\* an objective value strictly greater than self.value.
C6_LocalOptimum ==
    hc.pc = "done" =>
        \A a \in Actions : obj_val(problem, result_of(problem, hc.tour, a)) <= hc.value

C6_Witness ==
    /\ hc.pc = "done"
    /\ hc.niters >= 2
    /\ \E a \in Actions : obj_val(problem, result_of(problem, hc.tour, a)) = hc.value

\* C7: with max_restarts >= 1, the value recorded by HillClimbingReset.solve
\* is at least the value recorded by a HillClimbing.solve run from init on
\* the same problem, whatever random_reset returns.
C7_ResetAtLeastSingleRun ==
    (hc.pc = "done" /\ hcr.pc = "done" /\ hcr.max_restarts >= 1) =>
        hcr.value >= hc.value

C7_Witness ==
    /\ hc.pc = "done" /\ hcr.pc = "done"
    /\ hcr.max_restarts >= 2
    /\ hcr.value > hc.value
    /\ hcr.niters > hc.niters

\* C8: at every step of a Tabu.solve run the length of tabu_list never
\* exceeds the configured maximum length (the oldest entry is evicted).
C8_TabuListBounded == Len(tabu.tabu_list) <= tabu_tenure

\* C9: the value returned by Tabu.solve is the greatest objective value of
\* any current state held during the run, the state reached by the last
\* transition included.
C9_ReturnsBestSeen ==
    (tabu.pc = "done" /\ tabu.niters > 0) => tabu.value = tabu.seen

\* C10: a Tabu.solve run on a fresh instance terminates, and it ends only at
\* a loop test at which no_improve_count has reached no_improve_limit.
C10_TerminatesAtLimit ==
    tabu.pc \in {"done", "failed"} =>
        (tabu.pc = "done" /\ tabu.no_improve_count >= tabu.no_improve_limit)

\* C11: a second solve call on the same instance with the same problem
\* yields the same tour, value and iteration count as the first call.
C11_SecondCallSameResult ==
    (tabu.pc = "done" /\ tabu.first.done) =>
        /\ tabu.tour = tabu.first.tour
        /\ tabu.value = tabu.first.value
        /\ tabu.niters - tabu.first.niters = tabu.first.niters

\* a loop iteration of Tabu.solve that goes past the diversification branch
TabuIterates ==
    /\ tabu.pc = "loop"
    /\ LoopContinues(tabu.no_improve_count, tabu.no_improve_limit)
    /\ ~Diversifies(tabu)

InTabuList(a, tl) == \E i \in 1..Len(tl) : tl[i] = a

\* C12: in a Tabu.solve iteration, when the best action of the current state
\* is in tabu_list and its resulting value exceeds the best value found so
\* far, the action is removed from tabu_list and the move is taken.
C12_AspirationOverride ==
    [][LET b == max_action(problem, tabu.actual, <<>>) IN
         (TabuIterates /\ InTabuList(b.act, tabu.tabu_list) /\ b.val > tabu.best_value)
            => /\ tabu'.actual = result_of(problem, tabu.actual, b.act)
               /\ ~InTabuList(b.act, tabu'.tabu_list)]_vars

\* C13: within a run of HillClimbingReset.solve or Tabu.solve, best_value
\* never decreases: every change of it stores a strictly greater value.
C13_BestValueMonotone ==
    [][/\ hcr'.best_value # hcr.best_value => hcr'.best_value > hcr.best_value
       /\ tabu'.best_value # tabu.best_value => tabu'.best_value > tabu.best_value]_vars

\* a second trial ended lower than the first and left best_value alone
C13_Witness ==
    /\ Len(hcr.trials) = 2
    /\ hcr.trials[2].val < hcr.trials[1].val
    /\ hcr.trials[1].val > obj_val(problem, init)
    /\ hcr.best_value = hcr.trials[1].val

\* C14: every node on the frontier was pushed with a priority equal to its
\* own accumulated cost (its parent's cost plus the cost of entering it).
C14_PriorityIsOwnCost ==
    \A i \in 1..Len(frontier) : frontier[i].priority = nodes[frontier[i].node].cost

\* the parent chain of nodes[i] leads back to a root at grid.start by moves
\* between neighbouring states, every cost being the parent's cost plus the
\* cost of entering the node's state
RECURSIVE ValidChain(_)
ValidChain(i) ==
    LET n == nodes[i] IN
    IF n.parent = 0
    THEN n.state = grid.start /\ n.cost = 0
    ELSE /\ n.parent \in 1..(i - 1)
         /\ n.state \in NbSet(grid, nodes[n.parent].state)
         /\ n.cost = nodes[n.parent].cost + get_cost(grid, n.state)
         /\ ValidChain(n.parent)

RECURSIVE ChainLength(_)
ChainLength(i) == IF nodes[i].parent = 0 THEN 0 ELSE 1 + ChainLength(nodes[i].parent)

\* C15: the parent chain of the terminal node of a returned Solution is a
\* valid path from grid.start to grid.end.
C15_SolutionIsPath ==
    (ucs_pc = "done" /\ result.kind = "Solution") =>
        /\ result.node \in 1..Len(nodes)
        /\ nodes[result.node].state = grid.end
        /\ ValidChain(result.node)

C15_Witness ==
    /\ ucs_pc = "done" /\ result.kind = "Solution"
    /\ ChainLength(result.node) >= 4
    /\ ~UniformCost(grid)
    /\ grid.walls # {}

\* C16: in a Tabu.solve iteration whose candidate value does not exceed the
\* current value, the search moves to problem.result(actual, act) for the
\* action act just returned by max_action, adopts that successor's value,
\* and increments niters and no_improve_count by one (stated for the
\* iterations that follow an earlier move and have a candidate action).
C16_NonImprovingStep ==
    [][LET m == max_action(problem, tabu.actual, tabu.tabu_list) IN
         (TabuIterates /\ m.val <= tabu.val /\ m.act # None /\ tabu.act_prev # None)
            => /\ tabu'.actual = result_of(problem, tabu.actual, m.act)
               /\ tabu'.val = obj_val(problem, result_of(problem, tabu.actual, m.act))
               /\ tabu'.niters = tabu.niters + 1
               /\ tabu'.no_improve_count = tabu.no_improve_count + 1]_vars

\* C17: Tabu.solve never fails and never appends to tabu_list (or passes to
\* problem.result) the action None, also when problem.init is a local optimum.
C17_NeverUsesNone ==
    /\ tabu.pc # "failed"
    /\ ~InTabuList(None, tabu.tabu_list)

\* C18: HillClimbing.solve terminates at a local optimum; the current value
\* strictly increases at every iteration that moves, so no state is visited
\* twice, also when neighbours of equal value exist.
C18_ClimbTerminates ==
    /\ <>(hc.pc = "done" /\ \A a \in Actions :
             obj_val(problem, result_of(problem, hc.tour, a)) <= obj_val(problem, hc.tour))
    /\ [][(hc.pc = "loop" /\ hc'.pc = "loop") => hc'.val > hc.val]_vars
    /\ [](\A i, j \in 1..Len(hc.visited) : hc.visited[i] = hc.visited[j] => i = j)

\* a run that moved twice and stopped next to a neighbour of equal value
C18_Witness ==
    /\ hc.pc = "done"
    /\ Len(hc.visited) >= 3
    /\ \E a \in Actions : obj_val(problem, result_of(problem, hc.tour, a)) = hc.value

\* the number of improving moves steepest ascent makes from state s
RECURSIVE ClimbLength(_, _)
ClimbLength(pb, s) ==
    LET best == CHOOSE v \in 0..MaxVal :
                    /\ \E a \in Actions : obj_val(pb, result_of(pb, s, a)) = v
                    /\ \A a \in Actions : obj_val(pb, result_of(pb, s, a)) <= v
        a1 == CHOOSE a \in Actions :
                    /\ obj_val(pb, result_of(pb, s, a)) = best
                    /\ \A b \in 1..(a - 1) : obj_val(pb, result_of(pb, s, b)) < best
    IN  IF best > obj_val(pb, s) THEN 1 + ClimbLength(pb, result_of(pb, s, a1)) ELSE 0

RECURSIVE SumClimbs(_, _)
SumClimbs(pb, tr) ==
    IF tr = <<>> THEN 0 ELSE ClimbLength(pb, Head(tr).start) + SumClimbs(pb, Tail(tr))

\* C19: when HillClimbingReset.solve returns with max_restarts >= 1,
\* self.value is the greatest of the local-optimum values of the
\* max_restarts trials, self.tour is the final state of the first trial that
\* reached it, and self.niters is the number of improving moves of all trials.
C19_BestOfTrials ==
    (hcr.pc = "done" /\ hcr.max_restarts >= 1) =>
        /\ Len(hcr.trials) = hcr.max_restarts
        /\ \A i \in 1..Len(hcr.trials) : hcr.trials[i].val <= hcr.value
        /\ \E i \in 1..Len(hcr.trials) :
              /\ hcr.trials[i].val = hcr.value
              /\ \A j \in 1..(i - 1) : hcr.trials[j].val < hcr.value
              /\ hcr.tour = hcr.trials[i].state
        /\ obj_val(problem, hcr.tour) = hcr.value
        /\ hcr.niters = SumClimbs(problem, hcr.trials)

\* two trials ended in different states of the same, greatest value
C19_Witness ==
    /\ hcr.pc = "done"
    /\ Len(hcr.trials) = 2
    /\ hcr.trials[1].val = hcr.trials[2].val
    /\ hcr.trials[1].state # hcr.trials[2].state
    /\ hcr.tour = hcr.trials[1].state
    /\ hcr.niters >= 2

====
